---- MODULE Spec2Model ----
(***************************************************************************)
(* Model of the evaluation pipeline of recognite:                          *)
(*   - get_train_val_datasets   (src/src/data/train_val_datasets.py)       *)
(*   - get_score_matrix         (src/src/utils/inference/score_matrix.py)  *)
(*   - accuracy, top_k_accuracy, top_all_accuracy                          *)
(*                              (src/src/metrics/accuracy.py)              *)
(* The helpers label_based_k_fold_trainval_split, split_gallery_query and  *)
(* top_k live in modules that are not part of the sources at hand; they    *)
(* are modelled from their written specification.                          *)
(***************************************************************************)
EXTENDS Integers, Sequences, FiniteSets, TLC

VARIABLES
    \* ---- get_train_val_datasets
    df,             \* the frame read from data_csv_file
    args,           \* the arguments of the call
    ds_pc,          \* "start" | "done" | "error"
    ds_train,       \* the three returned dataset views
    ds_gal,
    ds_quer,
    df_val,         \* the local df_val (validation frame before the gallery/query split)
    \* ---- get_score_matrix
    training,       \* model.training
    agg_supplied,   \* agg_gal_fn is not None
    dl_gal,         \* the gallery loader: its batches in emission order
    dl_quer,        \* the query loader
    gal_pos,        \* batches of dl_gal consumed so far
    quer_pos,       \* batches of dl_quer consumed so far
    gal_embeddings, \* list of per-batch outputs, after torch.cat one flat list
    gal_labels,
    scores,         \* list of per-batch score blocks, after torch.cat the rows
    quer_labels,
    sm_pc,          \* position in get_score_matrix
    sm_error,       \* the exception that ended the call, or "none"
    sm_result,      \* the returned triple, or NoResult
    embed_calls,    \* calls of model(imgs) / get_embeddings_fn(model, imgs)
    agg_calls,      \* calls of agg_gal_fn
    mismatch_seen,  \* some processed batch had len(labels) # len(embeddings)
    \* ---- top_all_accuracy
    ta_query_labels,
    ta_top_all_labels,
    ta_pc,
    ta_result,
    \* ---- top_k_accuracy / accuracy
    tk_scores,
    tk_query_labels,
    tk_gallery_labels,
    tk_results      \* k |-> the value top_k_accuracy returned for k, for the calls made

dataVars   == <<df, args, ds_pc, ds_train, ds_gal, ds_quer, df_val>>
scoreVars  == <<training, agg_supplied, dl_gal, dl_quer, gal_pos, quer_pos,
                gal_embeddings, gal_labels, scores, quer_labels, sm_pc, sm_error, sm_result,
                embed_calls, agg_calls, mismatch_seen>>
topAllVars == <<ta_query_labels, ta_top_all_labels, ta_pc, ta_result>>
topKVars   == <<tk_scores, tk_query_labels, tk_gallery_labels, tk_results>>
vars       == <<dataVars, scoreVars, topAllVars, topKVars>>

(***************************************************************************)
(* Bounds of the model.                                                    *)
(***************************************************************************)
MaxRecords == 4
MaxFolds == 3
MaxRefs == 2
MaxSeed == 5
MaxItems == 3
MaxBatchSize == 2
MaxQueries == 2
MaxCands == 2
MaxGallery == 3
MaxScore == 2

Labels == {"A", "B", "C"}

\* integer labels, as the dataset views hand them to the loaders
IntLabels == {0, 1}

NoResult == [none |-> TRUE]

\* the outcome of a call: not made yet, a returned value, or a raised error
NotCalled == [called |-> FALSE]

Returned(v) == [called |-> TRUE, error |-> "none", value |-> v]

Raised(e) == [called |-> TRUE, error |-> e, value |-> NoResult]

(***************************************************************************)
(* Generic helpers.                                                        *)
(***************************************************************************)
SeqsUpTo(S, n) == UNION {[1..m -> S] : m \in 0..n}

Range(s) == {s[i] : i \in 1..Len(s)}

Min(a, b) == IF a <= b THEN a ELSE b

RemoveAt(s, i) == SubSeq(s, 1, i - 1) \o SubSeq(s, i + 1, Len(s))

RECURSIVE Concat(_)
Concat(ss) == IF ss = <<>> THEN <<>> ELSE Head(ss) \o Concat(Tail(ss))

RECURSIVE SelectSeqBy(_, _)
\* the rows of frame whose label is in keep, in frame order
SelectSeqBy(frame, keep) ==
    IF frame = <<>> THEN <<>>
    ELSE IF Head(frame).label \in keep
         THEN <<Head(frame)>> \o SelectSeqBy(Tail(frame), keep)
         ELSE SelectSeqBy(Tail(frame), keep)

(***************************************************************************)
(* pandas / numpy primitives used by the data code.                        *)
(***************************************************************************)
\* df[label_key]: the label column
LabelColumn(frame) == [i \in 1..Len(frame) |-> frame[i].label]

RECURSIVE UniqueFrom(_, _)
UniqueFrom(col, seen) ==
    IF col = <<>> THEN <<>>
    ELSE IF Head(col) \in seen THEN UniqueFrom(Tail(col), seen)
         ELSE <<Head(col)>> \o UniqueFrom(Tail(col), seen \cup {Head(col)})

\* Series.unique(): the distinct values in order of first appearance
Unique(col) == UniqueFrom(col, {})

LabelSet(frame) == Range(LabelColumn(frame))

RECURSIVE Shuffle(_, _)
\* A seeded shuffle: the permutation is a function of the seed alone.  The
\* seed's mixed-radix digits pick the next element among those left, so the
\* seeds 0 .. n! - 1 give the n! permutations of n elements.
Shuffle(s, seed) ==
    IF s = <<>> THEN <<>>
    ELSE LET idx == (seed % Len(s)) + 1
         IN  <<s[idx]>> \o Shuffle(RemoveAt(s, idx), seed \div Len(s))

(***************************************************************************)
(* label_based_k_fold_trainval_split and split_gallery_query               *)
(* (utils.data, modelled from the written specification).                  *)
(***************************************************************************)
\* Labels of fold f (0-based) when the shuffled labels are cut into nf
\* contiguous near-equal groups: the first (n mod nf) groups get one more.
FoldLabels(shuffled, nf, f) ==
    LET n     == Len(shuffled)
        base  == n \div nf
        extra == n % nf
        start == f * base + Min(f, extra)
        size  == base + (IF f < extra THEN 1 ELSE 0)
    IN  {shuffled[i] : i \in (start + 1)..(start + size)}

InvalidFoldConfig(frame, nf, vf) ==
    \/ nf < 2
    \/ vf < 0
    \/ vf >= nf
    \/ Cardinality(LabelSet(frame)) < nf

LabelBasedKFoldTrainvalSplit(frame, nf, vf, seed) ==
    LET shuffled == Shuffle(Unique(LabelColumn(frame)), seed)
        val_labels == FoldLabels(shuffled, nf, vf)
    IN  [train |-> SelectSeqBy(frame, LabelSet(frame) \ val_labels),
         val   |-> SelectSeqBy(frame, val_labels)]

\* the records of one label, shuffled with the seed
ShuffledGroup(frame, label, seed) == Shuffle(SelectSeqBy(frame, {label}), seed)

SplitGalleryQuery(frame, n_refs, seed) ==
    LET groups == Unique(LabelColumn(frame))
        take(l) == Min(n_refs, Len(ShuffledGroup(frame, l, seed)))
        gal(l)  == SubSeq(ShuffledGroup(frame, l, seed), 1, take(l))
        quer(l) == SubSeq(ShuffledGroup(frame, l, seed), take(l) + 1,
                          Len(ShuffledGroup(frame, l, seed)))
    IN  [gal  |-> Concat([g \in 1..Len(groups) |-> gal(groups[g])]),
         quer |-> Concat([g \in 1..Len(groups) |-> quer(groups[g])])]

(***************************************************************************)
(* get_train_val_datasets.                                                 *)
(***************************************************************************)
\* {label: label_idx for label_idx, label in enumerate(col)}: a later
\* occurrence of a key overwrites an earlier one
DictFromEnumerate(col) ==
    [l \in Range(col) |->
        (CHOOSE i \in 1..Len(col) :
            col[i] = l /\ \A j \in (i + 1)..Len(col) : col[j] # l) - 1]

\* mutant: the map is enumerated over the label column itself, not over unique()
LabelToInt_NoUnique(frame) == DictFromEnumerate(LabelColumn(frame))

LabelToInt(frame) == DictFromEnumerate(Unique(LabelColumn(frame)))

DataFrameDataset(frame, label_to_int) == [df |-> frame, label_to_int |-> label_to_int]

\* mutant: the training view is built over df, not over df_train
GetTrainValDatasets_TrainOnAll(frame, a) ==
    LET tv == LabelBasedKFoldTrainvalSplit(frame, a.num_folds, a.val_fold, a.k_fold_seed)
        gq == SplitGalleryQuery(tv.val, a.n_refs, a.rand_ref_seed)
        label_to_int_val == LabelToInt(tv.val)
    IN  [df_val   |-> tv.val,
         ds_train |-> DataFrameDataset(frame, LabelToInt(frame)),
         ds_gal   |-> DataFrameDataset(gq.gal, label_to_int_val),
         ds_quer  |-> DataFrameDataset(gq.quer, label_to_int_val)]

\* mutant: split_gallery_query is handed df, not df_val
GetTrainValDatasets_SplitAll(frame, a) ==
    LET tv == LabelBasedKFoldTrainvalSplit(frame, a.num_folds, a.val_fold, a.k_fold_seed)
        gq == SplitGalleryQuery(frame, a.n_refs, a.rand_ref_seed)
        label_to_int_val == LabelToInt(tv.val)
    IN  [df_val   |-> tv.val,
         ds_train |-> DataFrameDataset(tv.train, LabelToInt(tv.train)),
         ds_gal   |-> DataFrameDataset(gq.gal, label_to_int_val),
         ds_quer  |-> DataFrameDataset(gq.quer, label_to_int_val)]

GetTrainValDatasets(frame, a) ==
    LET tv == LabelBasedKFoldTrainvalSplit(frame, a.num_folds, a.val_fold, a.k_fold_seed)
        gq == SplitGalleryQuery(tv.val, a.n_refs, a.rand_ref_seed)
        label_to_int_val == LabelToInt(tv.val)
    IN  [df_val   |-> tv.val,
         ds_train |-> DataFrameDataset(tv.train, LabelToInt(tv.train)),
         ds_gal   |-> DataFrameDataset(gq.gal, label_to_int_val),
         ds_quer  |-> DataFrameDataset(gq.quer, label_to_int_val)]

\* the frames pd.read_csv can deliver: row i carries image i and some label
Frames == {[i \in 1..Len(col) |-> [label |-> col[i], image |-> i]] :
              col \in SeqsUpTo(Labels, MaxRecords)}

ArgSets == [num_folds : 1..MaxFolds, val_fold : 0..(MaxFolds - 1), k_fold_seed : 0..MaxSeed,
            n_refs : 1..MaxRefs, rand_ref_seed : 0..MaxSeed]

NoDataset == [df |-> <<>>, label_to_int |-> <<>>]

DataIdle ==
    /\ df = <<>>
    /\ args = NoResult
    /\ ds_pc = "idle"
    /\ ds_train = NoDataset
    /\ ds_gal = NoDataset
    /\ ds_quer = NoDataset
    /\ df_val = <<>>

DataInit ==
    /\ df \in Frames
    /\ args \in ArgSets
    /\ ds_pc = "start"
    /\ ds_train = NoDataset
    /\ ds_gal = NoDataset
    /\ ds_quer = NoDataset
    /\ df_val = <<>>

get_train_val_datasets ==
    /\ ds_pc = "start"
    /\ ~InvalidFoldConfig(df, args.num_folds, args.val_fold)
    /\ LET r == GetTrainValDatasets(df, args)
       IN  /\ df_val' = r.df_val
           /\ ds_train' = r.ds_train
           /\ ds_gal' = r.ds_gal
           /\ ds_quer' = r.ds_quer
    /\ ds_pc' = "done"
    /\ UNCHANGED <<df, args>>
    /\ UNCHANGED <<scoreVars, topAllVars, topKVars>>

get_train_val_datasets_fails ==
    /\ ds_pc = "start"
    /\ InvalidFoldConfig(df, args.num_folds, args.val_fold)
    /\ ds_pc' = "error"
    /\ UNCHANGED <<df, args, ds_train, ds_gal, ds_quer, df_val>>
    /\ UNCHANGED <<scoreVars, topAllVars, topKVars>>

(***************************************************************************)
(* get_score_matrix.                                                       *)
(***************************************************************************)
\* A loader over a dataset of labelled images: batches of batch_size items in
\* dataset order, the last one possibly shorter.  Image n of loader src is
\* [src |-> src, n |-> n].
LoaderBatches(src, ds_labels, batch_size) ==
    LET n  == Len(ds_labels)
        nb == (n + batch_size - 1) \div batch_size
        lo(b) == (b - 1) * batch_size + 1
        hi(b) == Min(b * batch_size, n)
    IN  [b \in 1..nb |->
            [imgs   |-> [i \in 1..(hi(b) - lo(b) + 1) |-> [src |-> src, n |-> lo(b) + i - 1]],
             labels |-> [i \in 1..(hi(b) - lo(b) + 1) |-> ds_labels[lo(b) + i - 1]]]]

Loaders(src) == {LoaderBatches(src, d, bs) :
                    d \in SeqsUpTo(IntLabels, MaxItems), bs \in 1..MaxBatchSize}

\* The embedding of an image is named by the image it was computed from.
Embedding(img) == [of |-> img]

\* What model(imgs) / get_embeddings_fn(model, imgs) may return for a batch:
\* one embedding per image, or (a faulty embedding function) one too few or
\* one too many.
EmbedOutputs(imgs) ==
    LET faithful == [i \in 1..Len(imgs) |-> Embedding(imgs[i])]
    IN  {faithful, Append(faithful, Embedding([src |-> "none", n |-> 0]))}
        \cup (IF imgs = <<>> THEN {} ELSE {SubSeq(faithful, 1, Len(imgs) - 1)})

\* torch.matmul(q_embs, gal_embeddings.T): entry (i, j) is the inner product
\* of query embedding i and gallery embedding j
MatMulT(q_embs, g_embs) ==
    [i \in 1..Len(q_embs) |-> [j \in 1..Len(g_embs) |-> [q |-> q_embs[i], g |-> g_embs[j]]]]

RECURSIVE SelectByLabel(_, _, _)
SelectByLabel(embs, labels, l) ==
    IF embs = <<>> THEN <<>>
    ELSE (IF Head(labels) = l THEN <<Head(embs)>> ELSE <<>>)
         \o SelectByLabel(Tail(embs), Tail(labels), l)

\* agg_gal_fn(gal_embeddings, gal_labels): the per-label mean, one column per
\* distinct label
AggGalFn(embs, labels) ==
    LET u == Unique(labels)
    IN  [embeddings |-> [j \in 1..Len(u) |-> [of |-> SelectByLabel(embs, labels, u[j])]],
         labels     |-> u]

\* mutant: the assertion on the model's mode is missing
ModelStateOk_Unchecked == TRUE

\* assert not model.training
ModelStateOk == ~training

\* mutant: the gallery loop stops after the first batch
GalLoaderExhausted_FirstOnly == gal_pos >= 1 \/ gal_pos = Len(dl_gal)

\* the for loop over dl_gal has no batch left
GalLoaderExhausted == gal_pos = Len(dl_gal)

QuerLoaderExhausted == quer_pos = Len(dl_quer)

\* assert len(labels) == len(out)
ShapesAgree(labels, out) == Len(labels) = Len(out)

ScoreIdle ==
    /\ training = FALSE
    /\ agg_supplied = FALSE
    /\ dl_gal = <<>>
    /\ dl_quer = <<>>
    /\ gal_pos = 0
    /\ quer_pos = 0
    /\ gal_embeddings = <<>>
    /\ gal_labels = <<>>
    /\ scores = <<>>
    /\ quer_labels = <<>>
    /\ sm_pc = "idle"
    /\ sm_error = "none"
    /\ sm_result = NoResult
    /\ embed_calls = 0
    /\ agg_calls = 0
    /\ mismatch_seen = FALSE

ScoreInit ==
    /\ training \in BOOLEAN
    /\ agg_supplied \in BOOLEAN
    /\ dl_gal \in Loaders("gal")
    /\ dl_quer \in Loaders("quer")
    /\ gal_pos = 0
    /\ quer_pos = 0
    /\ gal_embeddings = <<>>
    /\ gal_labels = <<>>
    /\ scores = <<>>
    /\ quer_labels = <<>>
    /\ sm_pc = "start"
    /\ sm_error = "none"
    /\ sm_result = NoResult
    /\ embed_calls = 0
    /\ agg_calls = 0
    /\ mismatch_seen = FALSE

smInputs == <<training, agg_supplied, dl_gal, dl_quer>>

\* assert not model.training; model = model.to(device); the empty accumulators
Start ==
    /\ sm_pc = "start"
    /\ IF ModelStateOk
       THEN sm_pc' = "gal_loop" /\ sm_error' = "none"
       ELSE sm_pc' = "error" /\ sm_error' = "InvalidModelState"
    /\ UNCHANGED <<smInputs, gal_pos, quer_pos, gal_embeddings, gal_labels, scores,
                   quer_labels, sm_result, embed_calls, agg_calls, mismatch_seen>>
    /\ UNCHANGED <<dataVars, topAllVars, topKVars>>

\* one iteration of the gallery loop
GalBatch ==
    /\ sm_pc = "gal_loop"
    /\ ~GalLoaderExhausted
    /\ LET batch == dl_gal[gal_pos + 1]
       IN  \E out \in EmbedOutputs(batch.imgs) :
              /\ gal_pos' = gal_pos + 1
              /\ embed_calls' = embed_calls + 1
              /\ mismatch_seen' = (mismatch_seen \/ Len(batch.labels) # Len(out))
              /\ IF ShapesAgree(batch.labels, out)
                 THEN /\ gal_embeddings' = Append(gal_embeddings, out)
                      /\ gal_labels' = Append(gal_labels, batch.labels)
                      /\ UNCHANGED <<sm_pc, sm_error>>
                 ELSE /\ sm_pc' = "error"
                      /\ sm_error' = "ShapeMismatch"
                      /\ UNCHANGED <<gal_embeddings, gal_labels>>
    /\ UNCHANGED <<smInputs, quer_pos, scores, quer_labels, sm_result, agg_calls>>
    /\ UNCHANGED <<dataVars, topAllVars, topKVars>>

\* gal_embeddings = torch.cat(gal_embeddings); gal_labels = torch.cat(gal_labels)
\* (torch.cat raises on an empty list), then the test on agg_gal_fn
GalCat ==
    /\ sm_pc = "gal_loop"
    /\ GalLoaderExhausted
    /\ IF gal_embeddings = <<>>
       THEN /\ sm_pc' = "error"
            /\ sm_error' = "EmptyCat"
            /\ UNCHANGED <<gal_embeddings, gal_labels>>
       ELSE /\ gal_embeddings' = Concat(gal_embeddings)
            /\ gal_labels' = Concat(gal_labels)
            /\ sm_pc' = IF agg_supplied THEN "agg" ELSE "quer_loop"
            /\ UNCHANGED sm_error
    /\ UNCHANGED <<smInputs, gal_pos, quer_pos, scores, quer_labels, sm_result,
                   embed_calls, agg_calls, mismatch_seen>>
    /\ UNCHANGED <<dataVars, topAllVars, topKVars>>

\* gal_embeddings, gal_labels = agg_gal_fn(gal_embeddings, gal_labels)
Aggregate ==
    /\ sm_pc = "agg"
    /\ LET r == AggGalFn(gal_embeddings, gal_labels)
       IN  /\ gal_embeddings' = r.embeddings
           /\ gal_labels' = r.labels
    /\ agg_calls' = agg_calls + 1
    /\ sm_pc' = "quer_loop"
    /\ UNCHANGED <<smInputs, gal_pos, quer_pos, scores, quer_labels, sm_error, sm_result,
                   embed_calls, mismatch_seen>>
    /\ UNCHANGED <<dataVars, topAllVars, topKVars>>

\* one iteration of the query loop
QuerBatch ==
    /\ sm_pc = "quer_loop"
    /\ ~QuerLoaderExhausted
    /\ LET batch == dl_quer[quer_pos + 1]
       IN  \E q_embs \in EmbedOutputs(batch.imgs) :
              /\ quer_pos' = quer_pos + 1
              /\ embed_calls' = embed_calls + 1
              /\ mismatch_seen' = (mismatch_seen \/ Len(batch.labels) # Len(q_embs))
              /\ scores' = Append(scores, MatMulT(q_embs, gal_embeddings))
              /\ quer_labels' = Append(quer_labels, batch.labels)
    /\ UNCHANGED <<smInputs, gal_pos, gal_embeddings, gal_labels, sm_pc, sm_error,
                   sm_result, agg_calls>>
    /\ UNCHANGED <<dataVars, topAllVars, topKVars>>

\* scores = torch.cat(scores); quer_labels = torch.cat(quer_labels); return
Return ==
    /\ sm_pc = "quer_loop"
    /\ QuerLoaderExhausted
    /\ IF scores = <<>>
       THEN /\ sm_pc' = "error"
            /\ sm_error' = "EmptyCat"
            /\ UNCHANGED <<scores, quer_labels, sm_result>>
       ELSE /\ scores' = Concat(scores)
            /\ quer_labels' = Concat(quer_labels)
            /\ sm_result' = [scores |-> Concat(scores), quer_labels |-> Concat(quer_labels),
                             gal_labels |-> gal_labels]
            /\ sm_pc' = "done"
            /\ UNCHANGED sm_error
    /\ UNCHANGED <<smInputs, gal_pos, quer_pos, gal_embeddings, gal_labels,
                   embed_calls, agg_calls, mismatch_seen>>
    /\ UNCHANGED <<dataVars, topAllVars, topKVars>>

(***************************************************************************)
(* accuracy, top_k_accuracy, top_all_accuracy.                             *)
(***************************************************************************)
\* A value of the float result: a fraction num/den, or NaN.
NaN == [nan |-> TRUE, num |-> 0, den |-> 0]

Frac(n, d) == [nan |-> FALSE, num |-> n, den |-> d]

\* torch.sum(corr) / len(query_labels): true division of a count by a length;
\* the count of an empty corr is 0 and 0 / 0 is nan
TorchDiv(n, d) == IF d = 0 THEN NaN ELSE Frac(n, d)

\* comparisons of float values: every comparison with NaN is false
ValLeq(a, b) == ~a.nan /\ ~b.nan /\ a.num * b.den <= b.num * a.den

ValEq(a, b) == ~a.nan /\ ~b.nan /\ a.num * b.den = b.num * a.den

\* mutant: a query counts as correct only if all of its labels match
Corr_All(query_labels, top_all_labels) ==
    [i \in 1..Len(query_labels) |->
        \A j \in 1..Len(top_all_labels[i]) : top_all_labels[i][j] = query_labels[i]]

\* corr = torch.any(top_all_labels == query_labels[:, None], dim=1)
Corr(query_labels, top_all_labels) ==
    [i \in 1..Len(query_labels) |->
        \E j \in 1..Len(top_all_labels[i]) : top_all_labels[i][j] = query_labels[i]]

\* torch.sum of a boolean vector
SumTrue(corr) == Cardinality({i \in 1..Len(corr) : corr[i]})

TopAllAccuracy(query_labels, top_all_labels) ==
    TorchDiv(SumTrue(Corr(query_labels, top_all_labels)), Len(query_labels))

RECURSIVE RankColumns(_, _)
\* the columns in cols in descending order of score, equal scores in
\* ascending column order
RankColumns(row, cols) ==
    IF cols = {} THEN <<>>
    ELSE LET best == CHOOSE c \in cols :
                        \A d \in cols : row[c] > row[d] \/ (row[c] = row[d] /\ c <= d)
         IN  <<best>> \o RankColumns(row, cols \ {best})

\* top_k(scores, gallery_labels, k) (utils.inference, modelled from the
\* written specification): per row the k highest scores and the labels of
\* their columns
TopK(scores_, gallery_labels, k) ==
    LET ranked(i) == SubSeq(RankColumns(scores_[i], 1..Len(gallery_labels)), 1, k)
    IN  [scores |-> [i \in 1..Len(scores_) |->
                        [j \in 1..k |-> scores_[i][ranked(i)[j]]]],
         labels |-> [i \in 1..Len(scores_) |->
                        [j \in 1..k |-> gallery_labels[ranked(i)[j]]]]]

InvalidK(gallery_labels, k) == k < 1 \/ k > Len(gallery_labels)

TopKAccuracy(scores_, query_labels, gallery_labels, k) ==
    TopAllAccuracy(query_labels, TopK(scores_, gallery_labels, k).labels)

Accuracy(scores_, query_labels, gallery_labels) ==
    TopKAccuracy(scores_, query_labels, gallery_labels, 1)

\* ---- top_all_accuracy called on its own
ScenarioQueryLabels == <<"A", "B">>

ScenarioTopAllLabels == << <<"A", "C">>, <<"C", "D">> >>

TopAllIdle ==
    /\ ta_query_labels = <<>>
    /\ ta_top_all_labels = <<>>
    /\ ta_pc = "idle"
    /\ ta_result = NotCalled

TopAllInit ==
    /\ \/ /\ ta_query_labels = ScenarioQueryLabels
          /\ ta_top_all_labels = ScenarioTopAllLabels
       \/ /\ ta_query_labels \in SeqsUpTo(Labels, MaxQueries)
          /\ \E w \in 0..MaxCands :
                ta_top_all_labels \in [1..Len(ta_query_labels) -> [1..w -> Labels]]
    /\ ta_pc = "start"
    /\ ta_result = NotCalled

top_all_accuracy ==
    /\ ta_pc = "start"
    /\ ta_result' = Returned(TopAllAccuracy(ta_query_labels, ta_top_all_labels))
    /\ ta_pc' = "done"
    /\ UNCHANGED <<ta_query_labels, ta_top_all_labels>>
    /\ UNCHANGED <<dataVars, scoreVars, topKVars>>

\* ---- top_k_accuracy and accuracy on one score matrix
TopKIdle ==
    /\ tk_scores = <<>>
    /\ tk_query_labels = <<>>
    /\ tk_gallery_labels = <<>>
    /\ tk_results = <<>>

TopKInit ==
    /\ tk_gallery_labels \in SeqsUpTo(IntLabels, MaxGallery)
    /\ tk_query_labels \in SeqsUpTo(IntLabels, MaxQueries)
    /\ tk_scores \in [1..Len(tk_query_labels) -> [1..Len(tk_gallery_labels) -> 0..MaxScore]]
    /\ tk_results = [k \in 0..(MaxGallery + 1) |-> NotCalled]

CallTopKAccuracy(k) ==
    IF InvalidK(tk_gallery_labels, k)
    THEN Raised("InvalidK")
    ELSE Returned(TopKAccuracy(tk_scores, tk_query_labels, tk_gallery_labels, k))

top_k_accuracy ==
    /\ \E k \in 0..(MaxGallery + 1) :
          /\ ~tk_results[k].called
          /\ \A j \in 0..(k - 1) : tk_results[j].called
          /\ tk_results' = [tk_results EXCEPT ![k] = CallTopKAccuracy(k)]
    /\ UNCHANGED <<tk_scores, tk_query_labels, tk_gallery_labels>>
    /\ UNCHANGED <<dataVars, scoreVars, topAllVars>>

accuracy ==
    /\ ~tk_results[1].called
    /\ tk_results[0].called
    /\ tk_results' = [tk_results EXCEPT ![1] =
            IF InvalidK(tk_gallery_labels, 1)
            THEN Raised("InvalidK")
            ELSE Returned(Accuracy(tk_scores, tk_query_labels, tk_gallery_labels))]
    /\ UNCHANGED <<tk_scores, tk_query_labels, tk_gallery_labels>>
    /\ UNCHANGED <<dataVars, scoreVars, topAllVars>>

(***************************************************************************)
(* Specifications: one per entry point.  An entry point that is not the    *)
(* subject of a specification stays idle in it.                            *)
(***************************************************************************)
InitData == DataInit /\ ScoreIdle /\ TopAllIdle /\ TopKIdle

DataNext ==
    \/ get_train_val_datasets
    \/ get_train_val_datasets_fails

SpecData == InitData /\ [][DataNext]_vars

InitScore == DataIdle /\ ScoreInit /\ TopAllIdle /\ TopKIdle

ScoreNext ==
    \/ Start
    \/ GalBatch
    \/ GalCat
    \/ Aggregate
    \/ QuerBatch
    \/ Return

SpecScore == InitScore /\ [][ScoreNext]_vars

InitTopAll == DataIdle /\ ScoreIdle /\ TopAllInit /\ TopKIdle

TopAllNext == top_all_accuracy

SpecTopAll == InitTopAll /\ [][TopAllNext]_vars

InitTopK == DataIdle /\ ScoreIdle /\ TopAllIdle /\ TopKInit

TopKNext ==
    \/ top_k_accuracy
    \/ accuracy

SpecTopK == InitTopK /\ [][TopKNext]_vars

(***************************************************************************)
(* Properties of get_train_val_datasets (checked under SpecData).          *)
(***************************************************************************)
RecordsOf(frame, l) == {frame[i] : i \in {j \in 1..Len(frame) : frame[j].label = l}}

CountOf(frame, l) == Cardinality({j \in 1..Len(frame) : frame[j].label = l})

\* C1: after a call with a valid fold configuration, no label occurs both in
\* the training records and in the validation records, the two label sets
\* together are the label set of the input, and every input record is in
\* the side of its label, once.
C1_LabelDisjointSplit ==
    ds_pc = "done" =>
        /\ LabelSet(ds_train.df) \cap LabelSet(df_val) = {}
        /\ LabelSet(ds_train.df) \cup LabelSet(df_val) = LabelSet(df)
        /\ \A l \in LabelSet(df) :
              \/ /\ RecordsOf(ds_train.df, l) = RecordsOf(df, l)
                 /\ CountOf(ds_train.df, l) = CountOf(df, l)
                 /\ CountOf(df_val, l) = 0
              \/ /\ RecordsOf(df_val, l) = RecordsOf(df, l)
                 /\ CountOf(df_val, l) = CountOf(df, l)
                 /\ CountOf(ds_train.df, l) = 0

C1_Witness ==
    /\ ds_pc = "done"
    /\ Cardinality(LabelSet(ds_train.df)) >= 2
    /\ \E l \in LabelSet(df_val) : CountOf(df_val, l) >= 2

\* C2: after a call, for every validation label the gallery holds exactly
\* min(n_refs, count) of its records, the query set holds the rest, and
\* gallery and query records of the label are the validation records of the
\* label, each once and none in both.
C2_GalleryQueryPartition ==
    ds_pc = "done" =>
        /\ LabelSet(ds_gal.df) \cup LabelSet(ds_quer.df) \subseteq LabelSet(df_val)
        /\ \A l \in LabelSet(df_val) :
              /\ CountOf(ds_gal.df, l) = Min(args.n_refs, CountOf(df_val, l))
              /\ CountOf(ds_quer.df, l) = CountOf(df_val, l) - CountOf(ds_gal.df, l)
              /\ RecordsOf(ds_gal.df, l) \cup RecordsOf(ds_quer.df, l) = RecordsOf(df_val, l)
              /\ RecordsOf(ds_gal.df, l) \cap RecordsOf(ds_quer.df, l) = {}
              /\ Cardinality(RecordsOf(ds_gal.df, l)) = CountOf(ds_gal.df, l)
              /\ Cardinality(RecordsOf(ds_quer.df, l)) = CountOf(ds_quer.df, l)

C2_Witness ==
    /\ ds_pc = "done"
    /\ args.n_refs = 2
    /\ \E l \in LabelSet(df_val) : CountOf(df_val, l) = 3
    /\ Len(ds_gal.df) = 2
    /\ Len(ds_quer.df) = 1

IsDenseIndex(map, labels) ==
    /\ DOMAIN map = labels
    /\ \A l1, l2 \in labels : map[l1] = map[l2] => l1 = l2
    /\ {map[l] : l \in labels} = 0..(Cardinality(labels) - 1)

\* C10: the gallery view and the query view carry the same label-to-integer
\* map; it is defined exactly on the validation labels, injective, with
\* range 0 .. (number of validation labels - 1), and covers the label of
\* every gallery and query record; the training view carries a map of its
\* own over the training labels with range 0 .. (number of training labels - 1).
C10_LabelMaps ==
    ds_pc = "done" =>
        /\ ds_gal.label_to_int = ds_quer.label_to_int
        /\ IsDenseIndex(ds_gal.label_to_int, LabelSet(df_val))
        /\ LabelSet(ds_gal.df) \cup LabelSet(ds_quer.df) \subseteq DOMAIN ds_gal.label_to_int
        /\ IsDenseIndex(ds_train.label_to_int, LabelSet(ds_train.df))

C10_Witness ==
    /\ ds_pc = "done"
    /\ Cardinality(LabelSet(df_val)) >= 2
    /\ ds_quer.df # <<>>
    /\ \E l \in LabelSet(df_val) : CountOf(df_val, l) >= 2

(***************************************************************************)
(* Properties of get_score_matrix (checked under SpecScore).               *)
(***************************************************************************)
\* the labels of the loader's dataset, in dataset order
LoaderLabels(dl) == Concat([b \in 1..Len(dl) |-> dl[b].labels])

LoaderImages(dl) == Concat([b \in 1..Len(dl) |-> dl[b].imgs])

\* the label the loader carries for the image an embedding was computed from
\* (none for an embedding that belongs to no image of the loader)
SourceLabels(dl, src, e) ==
    IF e.of.src = src /\ e.of.n \in 1..Len(LoaderLabels(dl))
    THEN {LoaderLabels(dl)[e.of.n]}
    ELSE {}

\* the labels of the gallery images behind column embedding g
ColumnLabels(g) ==
    IF agg_supplied
    THEN UNION {SourceLabels(dl_gal, "gal", g.of[m]) : m \in 1..Len(g.of)}
    ELSE SourceLabels(dl_gal, "gal", g)

\* C3: whenever the call returns, the score matrix has len(query_labels)
\* rows and len(gallery_labels) columns, row i was computed from an image
\* labelled query_labels[i] and column j from images labelled
\* gallery_labels[j].
C3_ScoreMatrixAligned ==
    sm_pc = "done" =>
        /\ Len(sm_result.scores) = Len(sm_result.quer_labels)
        /\ \A i \in 1..Len(sm_result.scores) :
              /\ Len(sm_result.scores[i]) = Len(sm_result.gal_labels)
              /\ i <= Len(sm_result.quer_labels)
              /\ \A j \in 1..Len(sm_result.scores[i]) :
                    /\ SourceLabels(dl_quer, "quer", sm_result.scores[i][j].q)
                          = {sm_result.quer_labels[i]}
                    /\ j <= Len(sm_result.gal_labels)
                    /\ ColumnLabels(sm_result.scores[i][j].g) = {sm_result.gal_labels[j]}

\* C4: once a processed batch, gallery or query, had a number of labels
\* different from its number of embeddings, the call has failed with a
\* shape mismatch and returns nothing.
C4_ShapeMismatchFails ==
    mismatch_seen =>
        /\ sm_pc = "error"
        /\ sm_error = "ShapeMismatch"
        /\ sm_result = NoResult

\* C5: with the model in training mode the call gets no further than its
\* failure: no batch is consumed, neither the embedding function nor
\* agg_gal_fn is called, and nothing is returned.
C5_TrainingModeFails ==
    training =>
        /\ sm_pc \in {"start", "error"}
        /\ sm_pc = "error" => sm_error = "InvalidModelState"
        /\ gal_pos = 0
        /\ quer_pos = 0
        /\ embed_calls = 0
        /\ agg_calls = 0
        /\ sm_result = NoResult

C5_Witness ==
    /\ training
    /\ sm_pc = "error"
    /\ agg_supplied
    /\ dl_gal # <<>>
    /\ dl_quer # <<>>

\* the score rows computed so far
ScoreRows == IF sm_pc = "done" THEN scores ELSE Concat(scores)

FaithfulEmbeddings(dl) ==
    [i \in 1..Len(LoaderImages(dl)) |-> Embedding(LoaderImages(dl)[i])]

\* C9: a query batch is read only after the gallery loader is exhausted;
\* agg_gal_fn is called at most once, only when supplied, only after the
\* last gallery batch, and has been called once when the first query batch
\* is read and when the call returns; it is applied to all gallery
\* embeddings and labels; every score row is taken against the final
\* gallery, and the rows and query labels follow the arrival order of the
\* query batches.
C9_ProcessingOrder ==
    /\ quer_pos > 0 => gal_pos = Len(dl_gal)
    /\ sm_pc \in {"agg", "quer_loop", "done"} => gal_pos = Len(dl_gal)
    /\ agg_calls <= 1
    /\ agg_calls = 1 => (agg_supplied /\ gal_pos = Len(dl_gal))
    /\ (agg_supplied /\ (quer_pos > 0 \/ sm_pc \in {"quer_loop", "done"})) => agg_calls = 1
    /\ sm_pc = "agg" => (quer_pos = 0 /\ agg_calls = 0)
    /\ agg_calls = 1 =>
          /\ gal_embeddings = AggGalFn(FaithfulEmbeddings(dl_gal), LoaderLabels(dl_gal)).embeddings
          /\ gal_labels = AggGalFn(FaithfulEmbeddings(dl_gal), LoaderLabels(dl_gal)).labels
    /\ (sm_pc \in {"quer_loop", "done"} /\ ~agg_supplied) =>
          /\ gal_embeddings = FaithfulEmbeddings(dl_gal)
          /\ gal_labels = LoaderLabels(dl_gal)
    /\ sm_pc \in {"quer_loop", "done"} =>
          /\ \A i \in 1..Len(ScoreRows) :
                /\ Len(ScoreRows[i]) = Len(gal_embeddings)
                /\ \A j \in 1..Len(gal_embeddings) : ScoreRows[i][j].g = gal_embeddings[j]
          /\ \A i1, i2 \in 1..Len(ScoreRows) :
                (/\ i1 < i2
                 /\ ScoreRows[i1][1].q.of.src = "quer"
                 /\ ScoreRows[i2][1].q.of.src = "quer")
                    => ScoreRows[i1][1].q.of.n < ScoreRows[i2][1].q.of.n
          /\ (IF sm_pc = "done" THEN quer_labels ELSE Concat(quer_labels))
                = Concat([b \in 1..quer_pos |-> dl_quer[b].labels])
    /\ sm_pc = "done" => quer_pos = Len(dl_quer)

C9_Witness ==
    /\ sm_pc = "done"
    /\ agg_supplied
    /\ agg_calls = 1
    /\ Len(dl_gal) >= 2
    /\ Len(dl_quer) >= 2
    /\ Len(gal_labels) = 2

(***************************************************************************)
(* Properties of the accuracy functions.                                   *)
(***************************************************************************)
NumGallery == Len(tk_gallery_labels)

ReturnedValue(k) == tk_results[k].called /\ tk_results[k].error = "none"

\* the two halves of the claim about top_k_accuracy, for the calls made
MonotoneInK ==
    \A k \in 1..(NumGallery - 1) :
        (ReturnedValue(k) /\ ReturnedValue(k + 1))
            => ValLeq(tk_results[k].value, tk_results[k + 1].value)

CompleteAtNumGallery ==
    (/\ NumGallery >= 1
     /\ ReturnedValue(NumGallery)
     /\ Range(tk_query_labels) \subseteq Range(tk_gallery_labels))
        => ValEq(tk_results[NumGallery].value, Frac(1, 1))

\* C6: on one score matrix, top_k_accuracy does not decrease from k to k + 1
\* for k from 1 up to the number of gallery columns, and with k the number
\* of gallery columns it is 1.0 whenever every query label occurs among the
\* gallery labels.
C6_MonotoneAndComplete == MonotoneInK /\ CompleteAtNumGallery

\* The same two halves hold on every score matrix with at least one query
\* (checked under SpecTopK): only the empty query set breaks them.
MonotoneAndCompleteForQueries ==
    tk_query_labels # <<>> => (MonotoneInK /\ CompleteAtNumGallery)

\* the queries whose own label is among their candidate labels
Hits == {i \in 1..Len(ta_query_labels) : ta_query_labels[i] \in Range(ta_top_all_labels[i])}

\* C7: for a non-empty list of queries top_all_accuracy returns the number of
\* queries whose own label is among their candidate labels, divided by the
\* number of queries, a value between 0 and 1; for query labels [A, B] with
\* candidates [[A, C], [C, D]] it returns 0.5.
C7_TopAllAccuracy ==
    (ta_pc = "done" /\ ta_query_labels # <<>>) =>
        /\ ta_result.error = "none"
        /\ ValEq(ta_result.value, Frac(Cardinality(Hits), Len(ta_query_labels)))
        /\ ValLeq(Frac(0, 1), ta_result.value)
        /\ ValLeq(ta_result.value, Frac(1, 1))
        /\ (ta_query_labels = ScenarioQueryLabels /\ ta_top_all_labels = ScenarioTopAllLabels)
              => ValEq(ta_result.value, Frac(1, 2))

C7_Witness ==
    /\ ta_pc = "done"
    /\ ta_query_labels = ScenarioQueryLabels
    /\ ta_top_all_labels = ScenarioTopAllLabels
    /\ ValEq(ta_result.value, Frac(1, 2))

\* C8: a call with zero queries fails with EmptyInput and returns no value.
C8_EmptyQueriesRaise ==
    (ta_pc = "done" /\ ta_query_labels = <<>>) => ta_result.error = "EmptyInput"

====
